---- MODULE Spec2Model ----
(***************************************************************************)
(* Model of nerdlem/tlsa: the tlsafromcert command (main) driving the      *)
(* package functions CertificateSignatures, DeleteRRs, AddRR, GetZone and  *)
(* TsigAndSend against a name server reached through a stub transport.     *)
(*                                                                         *)
(* The program is sequential and blocks in every DNS exchange, so a state  *)
(* of the model is the program stopped just before an exchange (or ended), *)
(* and a step is one exchange together with all the code that runs up to   *)
(* the next exchange.  The transport's answer is the input of each step.   *)
(*                                                                         *)
(* A domain name is the sequence of its labels; an absolute name (one      *)
(* written with a trailing dot) ends with the empty root label.            *)
(***************************************************************************)
EXTENDS Integers, Sequences, FiniteSets, TLC

VARIABLES
    clearAll,   \* flag -clear-all
    dryRun,     \* flag -dry-run
    pinNames,   \* target domains, from -names
    pinCerts,   \* certificate files, from -pin-certs
    tsigKeyFile, \* the key file, from -tsig-file
    Usage,      \* tlsa.Usage, from -tlsa-usage
    Selector,   \* tlsa.Selector, from -tlsa-selector
    MatchingType, \* tlsa.MatchingType, from -tlsa-match
    keys,       \* TSIG keys returned by ReadTSIG (m in main)
    crtSigns,   \* association data computed by CertificateSignatures
    stdout,     \* lines printed to standard output, by main and by GetZone
    pc,         \* "main", "GetZone", "TsigAndSend", "exit", "panic"
    op,         \* running operation: "none", "DeleteRRs", "AddRR"
    idx,        \* position in pinNames of the domain being processed
    attempt,    \* GetZone's loop counter
    kidx,       \* TsigAndSend's position in keys
    zone,       \* apex returned by GetZone for the current domain
    m,          \* update message being signed and sent
    panicBy,    \* function that called panic ("none" while running)
    wire,       \* every exchange handed to the transport, in order
    rets,       \* every return of GetZone and TsigAndSend, in order
    rrsets,     \* the server's TLSA RRset at each owner name
    outages,    \* GetZone calls whose first query the transport lost
    called,     \* package function last applied on its own ("none" in a run)
    input,      \* the argument it was applied to
    output      \* what it returned

(* The variables of a run of the command, and those of a single call. *)
prog == <<clearAll, dryRun, pinNames, pinCerts, tsigKeyFile, Usage, Selector,
          MatchingType, keys, crtSigns, stdout, pc, op, idx, attempt, kidx,
          zone, m, panicBy, wire, rets, rrsets, outages>>

lib == <<called, input, output>>

vars == <<prog, lib>>

config == <<clearAll, dryRun, pinNames, pinCerts, tsigKeyFile, Usage, Selector,
           MatchingType>>

-----------------------------------------------------------------------------
(* Bounds of the model. *)

MaxNames == 2
MaxKeys == 2
MaxCerts == 2
MaxOutages == 1
MaxTokens == 3
MaxBlocks == 2
MaxRRs == 2

(* Program constants. *)

RetryCeilingOffByOne == 5 + 1

RetryCeiling == 5
TSIGFUDGE == 300

-----------------------------------------------------------------------------
(* Inputs. *)

NameA == <<"a", "example", "com">>
NameBDot == <<"b", "example", "com", "">>
NameC == <<"c", "example", "com">>
NamePool == {NameA, NameBDot, NameC}

(* The lists -names gives: the first n of a, b., a, b., ..., whose names lie *)
(* in different zones, and the list a, c, a, ... of full length, whose names *)
(* all lie in the zone example.com.; runs for that list have the flags'     *)
(* default TLSA parameters and a key file of at most one key.                *)
NameAt(i) == IF i % 2 = 1 THEN NameA ELSE NameBDot

SharedZoneList == [i \in 1..MaxNames |-> IF i % 2 = 1 THEN NameA ELSE NameC]

NameLists == { [i \in 1..n |-> NameAt(i)] : n \in 0..MaxNames }
             \cup {SharedZoneList}

ZoneExample == <<"example", "com", "">>
ZoneCom == <<"com", "">>
Root == <<"">>

(* The key file's records: key i of the file has the i-th of the supported *)
(* algorithms, except for at most one key, which has an unsupported one.    *)
SupportedAt(i) == <<165, 157, 163, 161>>[((i - 1) % 4) + 1]

KeyLists ==
    UNION { { [i \in 1..k |-> [name |-> <<"key", i>>,
                               algorithm |-> IF i = bad THEN 164 ELSE SupportedAt(i),
                               secret |-> <<"secret", i>>]] :
              bad \in 0..k } : k \in 0..MaxKeys }

SeqsUpTo(S, n) == UNION { [1..k -> S] : k \in 0..n }

(* What dns.ParseZone yields for a key file, one token per entry: a parsed  *)
(* record, or a token without a record for an entry that does not parse.    *)
KeyRR(i) ==
    [nil |-> FALSE, class |-> "IN", rrtype |-> "KEY", name |-> <<"key", i>>,
     algorithm |-> SupportedAt(i), secret |-> <<"secret", i>>]

NilToken ==
    [nil |-> TRUE, class |-> "", rrtype |-> "", name |-> <<>>, algorithm |-> 0,
     secret |-> <<>>]

TokenPool ==
    { NilToken, KeyRR(1), KeyRR(2), [KeyRR(1) EXCEPT !.class = "CH"],
      [KeyRR(2) EXCEPT !.rrtype = "A"] }

(* A key file: one that cannot be opened, or the tokens of its entries. *)
KeyFiles ==
    { [open |-> FALSE, tokens |-> <<>>] }
    \cup { [open |-> TRUE, tokens |-> ts] : ts \in SeqsUpTo(TokenPool, MaxTokens) }

(* The dns.KEY that ReadTSIG appends for a record. *)
KeyOf(rr) == [name |-> rr.name, algorithm |-> rr.algorithm, secret |-> rr.secret]

(* The loop of ReadTSIG over the tokens left, with the keys collected. *)
RECURSIVE ReadTokens(_, _)
ReadTokens(tokens, ret) ==
    IF tokens = <<>> THEN [ret |-> ret, err |-> "none"]
    ELSE LET rr == Head(tokens)
         IN  IF rr.nil THEN [ret |-> ret, err |-> "nil RR"]
             ELSE IF rr.class # "IN" THEN [ret |-> ret, err |-> "unexpected class"]
             ELSE IF rr.rrtype # "KEY" THEN [ret |-> ret, err |-> "unexpected type"]
             ELSE ReadTokens(Tail(tokens), Append(ret, KeyOf(rr)))

(* Mutant: records that are not Internet-class KEY records are skipped. *)
RECURSIVE FilterTokens(_, _)
FilterTokens(tokens, ret) ==
    IF tokens = <<>> THEN [ret |-> ret, err |-> "none"]
    ELSE LET rr == Head(tokens)
         IN  IF rr.nil THEN [ret |-> ret, err |-> "nil RR"]
             ELSE IF rr.class # "IN" \/ rr.rrtype # "KEY"
             THEN FilterTokens(Tail(tokens), ret)
             ELSE FilterTokens(Tail(tokens), Append(ret, KeyOf(rr)))

ReadTSIGFiltering(file) ==
    IF ~file.open THEN [ret |-> <<>>, err |-> "open"]
    ELSE FilterTokens(file.tokens, <<>>)

(* ReadTSIG: the keys of a key file, or the keys read so far and an error. *)
ReadTSIG(file) ==
    IF ~file.open THEN [ret |-> <<>>, err |-> "open"]
    ELSE ReadTokens(file.tokens, <<>>)

(* The key file that holds a list of key records, and key files ReadTSIG   *)
(* refuses: one that cannot be opened, one with an entry that does not      *)
(* parse, one with a record of class CH, one with a record of type A.       *)
KeyFileOf(list) ==
    [open |-> TRUE,
     tokens |-> [i \in DOMAIN list |->
                    [nil |-> FALSE, class |-> "IN", rrtype |-> "KEY",
                     name |-> list[i].name, algorithm |-> list[i].algorithm,
                     secret |-> list[i].secret]]]

BadKeyFiles ==
    { [open |-> FALSE, tokens |-> <<>>],
      [open |-> TRUE, tokens |-> <<KeyRR(1), NilToken>>],
      [open |-> TRUE, tokens |-> << [KeyRR(1) EXCEPT !.class = "CH"] >>],
      [open |-> TRUE, tokens |-> <<KeyRR(1), [KeyRR(2) EXCEPT !.rrtype = "A"]>>] }

(* The files -tsig-file may name. *)
TsigFiles == { KeyFileOf(l) : l \in KeyLists } \cup BadKeyFiles

(* The bytes a PEM block may hold: the encoding of a certificate (with its  *)
(* subject common name and DNS subject-alternative names), the encoding of  *)
(* a public key, or bytes that are neither.                                 *)
CertDer(i, cn, sans) ==
    [asn1 |-> "Certificate", der |-> <<"der", i>>, spki |-> <<"spki", i>>,
     commonName |-> cn, dnsNames |-> sans]

SpkiDer ==
    [asn1 |-> "SubjectPublicKeyInfo", der |-> <<"spki", 1>>, spki |-> <<>>,
     commonName |-> "", dnsNames |-> <<>>]

JunkDer ==
    [asn1 |-> "junk", der |-> <<"junk">>, spki |-> <<>>, commonName |-> "",
     dnsNames |-> <<>>]

DerPool ==
    { CertDer(1, "a.example.com", <<"a.example.com">>),
      CertDer(2, "", <<"a.example.com", "b.example.com">>),
      CertDer(3, "c.example.com", <<"b.example.com", "b.example.com">>),
      SpkiDer, JunkDer }

BlockTypes == {"CERTIFICATE", "PUBLIC KEY", "RSA PRIVATE KEY"}

BlockPool == { [Type |-> t, Bytes |-> b] : t \in BlockTypes, b \in DerPool }

(* A certificate file: one that cannot be read, or its PEM blocks in order. *)
PemFiles ==
    { [readable |-> FALSE, blocks |-> <<>>] }
    \cup { [readable |-> TRUE, blocks |-> bs] : bs \in SeqsUpTo(BlockPool, MaxBlocks) }

(* The nil *x509.Certificate, and a certificate value. *)
NilCert ==
    [nil |-> TRUE, raw |-> <<>>, spki |-> <<>>, commonName |-> "", dnsNames |-> <<>>]

Cert(raw, spki, cn, sans) ==
    [nil |-> FALSE, raw |-> raw, spki |-> spki, commonName |-> cn, dnsNames |-> sans]

(* x509.ParseCertificate on a block's bytes. *)
ParseCertificate(bytes) ==
    IF bytes.asn1 = "Certificate"
    THEN [err |-> "none",
          cert |-> Cert(bytes.der, bytes.spki, bytes.commonName, bytes.dnsNames)]
    ELSE [err |-> "parse", cert |-> NilCert]

(* Mutant: a block of any other type is taken for a public key. *)
GetCertificateLenient(file) ==
    IF ~file.readable THEN [err |-> "read", cert |-> NilCert]
    ELSE IF file.blocks = <<>> THEN [err |-> "no PEM block", cert |-> NilCert]
    ELSE LET block == Head(file.blocks)
         IN  CASE block.Type = "CERTIFICATE" -> ParseCertificate(block.Bytes)
               [] OTHER ->
                    [err |-> "none", cert |-> Cert(<<>>, block.Bytes.der, "", <<>>)]

(* GetCertificate: read the file, decode its first PEM block, and switch on *)
(* the block's type.                                                        *)
GetCertificate(file) ==
    IF ~file.readable THEN [err |-> "read", cert |-> NilCert]
    ELSE IF file.blocks = <<>> THEN [err |-> "no PEM block", cert |-> NilCert]
    ELSE LET block == Head(file.blocks)
         IN  CASE block.Type = "CERTIFICATE" -> ParseCertificate(block.Bytes)
               [] block.Type = "PUBLIC KEY" ->
                    [err |-> "none", cert |-> Cert(<<>>, block.Bytes.der, "", <<>>)]
               [] OTHER -> [err |-> "unsupported type", cert |-> NilCert]

(* The certificate files named by -pin-certs: the first n of a list whose   *)
(* odd entries hold a certificate and whose even entries hold a public key, *)
(* except for at most one entry, which is a file GetCertificate refuses.    *)
CertFile(i) ==
    [readable |-> TRUE,
     blocks |-> << IF i % 2 = 1
                   THEN [Type |-> "CERTIFICATE",
                         Bytes |-> CertDer(i, "a.example.com", <<"a.example.com">>)]
                   ELSE [Type |-> "PUBLIC KEY",
                         Bytes |-> [SpkiDer EXCEPT !.der = <<"spki", i>>]] >>]

BadCertFiles ==
    { [readable |-> FALSE, blocks |-> <<>>],
      [readable |-> TRUE, blocks |-> <<>>],
      [readable |-> TRUE,
       blocks |-> << [Type |-> "RSA PRIVATE KEY", Bytes |-> JunkDer] >>],
      [readable |-> TRUE,
       blocks |-> << [Type |-> "CERTIFICATE", Bytes |-> JunkDer] >>] }

CertLists ==
    UNION { { [i \in 1..n |-> IF i = bad THEN b ELSE CertFile(i)] :
              b \in BadCertFiles } : n \in 0..MaxCerts, bad \in 0..MaxCerts }

(* The TLSA parameters <<usage, selector, matching type>> of a run: the     *)
(* defaults of the flags; the values the package variables have before the *)
(* flags are registered, which dns.CertificateToDANE refuses; and values    *)
(* above 255, which uint8(...) brings back to 3, 0 and 1.  Runs with other *)
(* parameters than the flags' defaults are runs without -clear-all.         *)
FlagDefaults == <<3, 1, 2>>

PackageDefaults == <<1, 2, 3>>

TlsaParams == {FlagDefaults, PackageDefaults, <<259, 256, 257>>}

(* Resource records a SOA response may carry, and the server's responses. *)
RR(n, c, t) == [name |-> n, class |-> c, rrtype |-> t]

SoaExample == RR(ZoneExample, "IN", "SOA")
SoaCom == RR(ZoneCom, "IN", "SOA")
SoaChaos == RR(ZoneCom, "CH", "SOA")
NsExample == RR(ZoneExample, "IN", "NS")

Response(n, a) == [err |-> FALSE, Ns |-> n, Answer |-> a]
Lost == [err |-> TRUE, Ns |-> <<>>, Answer |-> <<>>]

(* The server's zone data: a.example.com. and c.example.com. lie in        *)
(* example.com. and the server answers with that SOA in the authority      *)
(* section; b.example.com.                                                 *)
(* is served from com. and the SOA comes in the answer section.  Either    *)
(* query may also get a response without any Internet-class SOA record.    *)
ZoneData(name) ==
    IF name \in {<<"a", "example", "com", "">>, <<"c", "example", "com", "">>}
    THEN Response(<<NsExample, SoaExample>>, <<SoaCom>>)
    ELSE Response(<<SoaChaos>>, <<SoaChaos, SoaCom>>)

NoSoaResponse == Response(<<NsExample>>, <<SoaChaos>>)

(* What the transport gives back for an update: an error (the request may or *)
(* may not have reached the server), or a response with opcode and rcode.    *)
UpdateOutcomes ==
    { [err |-> TRUE, applied |-> b, opcode |-> "NONE", rcode |-> "NONE"] : b \in BOOLEAN }
    \cup { [err |-> FALSE, applied |-> (r[1] = "UPDATE" /\ r[2] = "NOERROR"),
            opcode |-> r[1], rcode |-> r[2]] :
           r \in { <<"UPDATE", "NOERROR">>, <<"UPDATE", "REFUSED">>,
                   <<"QUERY", "NOERROR">> } }

-----------------------------------------------------------------------------
(* Pure functions of the package. *)

(* dns.Fqdn as the package uses it: append the root label unless present. *)
Fqdn(name) ==
    IF Len(name) > 0 /\ name[Len(name)] = "" THEN name ELSE Append(name, "")

(* Mutant: the switch keeps its initial value, HmacMD5, for an unknown number. *)
HmacAlgoDefaultsToMD5(algorithm) ==
    CASE algorithm = 161 -> "hmac-sha1"
      [] algorithm = 163 -> "hmac-sha256"
      [] algorithm = 165 -> "hmac-sha512"
      [] OTHER -> "hmac-md5"

(* The switch of TsigAndSend from a key's algorithm number to a MAC. *)
HmacAlgo(algorithm) ==
    CASE algorithm = 157 -> "hmac-md5"
      [] algorithm = 161 -> "hmac-sha1"
      [] algorithm = 163 -> "hmac-sha256"
      [] algorithm = 165 -> "hmac-sha512"
      [] OTHER -> "unknown"

(* Mutant: a response is refused only if both opcode and rcode are wrong. *)
RejectedOnlyIfBoth(in) == in.opcode # "UPDATE" /\ in.rcode # "NOERROR"

(* TsigAndSend's test of the response to an update. *)
Rejected(in) == in.opcode # "UPDATE" \/ in.rcode # "NOERROR"

(* GetZone's scan of one section for the first Internet-class SOA record. *)
RECURSIVE ScanSection(_)
ScanSection(rrs) ==
    IF rrs = <<>> THEN [found |-> FALSE, name |-> Root]
    ELSE IF Head(rrs).class = "IN" /\ Head(rrs).rrtype = "SOA"
         THEN [found |-> TRUE, name |-> Head(rrs).name]
         ELSE ScanSection(Tail(rrs))

(* Mutant: the answer section is scanned before the authority section. *)
ScanResponseAnswerFirst(in) ==
    IF ScanSection(in.Answer).found THEN ScanSection(in.Answer)
    ELSE ScanSection(in.Ns)

(* GetZone's scan of a response: the authority section, then the answer. *)
ScanResponse(in) ==
    IF ScanSection(in.Ns).found THEN ScanSection(in.Ns)
    ELSE ScanSection(in.Answer)

(* The conversion uint8(...) of a flag's value. *)
Uint8(n) == n % 256

(* dns.CertificateToDANE on a loaded certificate: the hexadecimal string of *)
(* the selected bytes (0: the certificate, 1: its public key), as they are  *)
(* (matching type 0) or hashed with SHA-256 (1) or SHA-512 (2); any other   *)
(* selector or matching type is an error.                                   *)
CertificateToDANE(selector, matchingType, c) ==
    IF matchingType \in {0, 1, 2} /\ selector \in {0, 1}
    THEN [err |-> "none",
          hex |-> << CASE matchingType = 0 -> "hex"
                       [] matchingType = 1 -> "sha256"
                       [] matchingType = 2 -> "sha512",
                     IF selector = 0 THEN c.raw ELSE c.spki >>]
    ELSE [err |-> "bad MatchingType or Selector", hex |-> <<>>]

(* The loop of CertificateSignatures over the files left, with the strings *)
(* collected: it panics when a file does not load or the digest fails.     *)
RECURSIVE SignaturesLoop(_, _)
SignaturesLoop(certFiles, sigs) ==
    IF certFiles = <<>> THEN [panic |-> "none", sigs |-> sigs]
    ELSE LET c == GetCertificate(Head(certFiles))
         IN  IF c.err # "none" THEN [panic |-> c.err, sigs |-> sigs]
             ELSE LET h == CertificateToDANE(Uint8(Selector), Uint8(MatchingType),
                                             c.cert)
                  IN  IF h.err # "none" THEN [panic |-> h.err, sigs |-> sigs]
                      ELSE SignaturesLoop(Tail(certFiles), Append(sigs, h.hex))

(* Mutant: the digests are computed again for every target domain. *)
CertificateSignaturesPerDomain(certFiles) ==
    LET once == SignaturesLoop(certFiles, <<>>)
    IN  IF once.panic # "none" THEN once
        ELSE [panic |-> "none",
              sigs |-> [j \in 1..(Len(pinNames) * Len(once.sigs)) |->
                           once.sigs[((j - 1) % Len(once.sigs)) + 1]]]

(* CertificateSignatures: one association-data string per certificate file, *)
(* or a panic at the first file that does not load.                         *)
CertificateSignatures(certFiles) == SignaturesLoop(certFiles, <<>>)

(* The update message DeleteRRs composes for a domain in a zone: SetUpdate   *)
(* scopes it to the zone and RemoveRRset turns the record's header into a    *)
(* class-ANY delete-RRset instruction for the owner's TLSA RRset.            *)
NoMsg == [zone |-> Root, kind |-> "none", ns |-> <<>>]

DeleteRRsMsg(domain, z) ==
    [zone |-> z, kind |-> "delete",
     ns |-> << [name |-> Fqdn(domain), rrtype |-> "TLSA", class |-> "ANY",
                rdata |-> <<>>] >>]

(* Mutant: AddRR inserts only the record of the first certificate. *)
AddRRMsgFirstOnly(domain, z, signs) ==
    [zone |-> z, kind |-> "insert",
     ns |-> [i \in 1..(IF Len(signs) > 0 THEN 1 ELSE 0) |->
                [name |-> Fqdn(domain), rrtype |-> "TLSA", class |-> "IN",
                 rdata |-> <<Uint8(Usage), Uint8(Selector), Uint8(MatchingType), signs[i]>>]]]

(* Mutant: AddRR replaces the RRset: a delete-RRset instruction comes first. *)
AddRRMsgReplacing(domain, z, signs) ==
    [zone |-> z, kind |-> "insert",
     ns |-> << [name |-> Fqdn(domain), rrtype |-> "TLSA", class |-> "ANY",
                rdata |-> <<>>] >>
            \o [i \in 1..Len(signs) |->
                   [name |-> Fqdn(domain), rrtype |-> "TLSA", class |-> "IN",
                    rdata |-> <<Uint8(Usage), Uint8(Selector), Uint8(MatchingType), signs[i]>>]]]

(* The update message AddRR composes for a domain in a zone: one TLSA record *)
(* per association-data string, which Insert puts in the zone's class.       *)
AddRRMsg(domain, z, signs) ==
    [zone |-> z, kind |-> "insert",
     ns |-> [i \in 1..Len(signs) |->
                [name |-> Fqdn(domain), rrtype |-> "TLSA", class |-> "IN",
                 rdata |-> <<Uint8(Usage), Uint8(Selector), Uint8(MatchingType), signs[i]>>]]]

-----------------------------------------------------------------------------
(* The name server: RFC 2136 semantics of the two instructions the program *)
(* sends.  A delete-RRset instruction empties the owner's TLSA RRset; an   *)
(* insert adds its record to the RRset.  Before the run the server holds   *)
(* an older TLSA record at a.example.com. and none at b.example.com.       *)

Owners == {Fqdn(n) : n \in NamePool}
OldRdata == <<3, 1, 1, <<"sha256", "spkiOld">>>>
InitialRRsets == [o \in Owners |-> IF o = Fqdn(NameA) THEN {OldRdata} ELSE {}]

RECURSIVE ApplyUpdate(_, _)
ApplyUpdate(sets, ns) ==
    IF ns = <<>> THEN sets
    ELSE LET r == Head(ns)
             after == IF r.class = "ANY"
                      THEN [sets EXCEPT ![r.name] = {}]
                      ELSE [sets EXCEPT ![r.name] = @ \cup {r.rdata}]
         IN  ApplyUpdate(after, Tail(ns))

(* What the transport gives back for a SOA query for name: the exchange is  *)
(* lost, or a response of the server arrives.  The transport loses the      *)
(* first query of at most MaxOutages calls of GetZone; an outage lasts any  *)
(* number of queries of that call.                                          *)
SoaOutcomes(name) ==
    (IF attempt > 0 \/ outages < MaxOutages THEN {Lost} ELSE {})
    \cup {ZoneData(name), NoSoaResponse}

-----------------------------------------------------------------------------
(* Control: where the program stops next, and what has returned so far. *)

St(p, o, i, a, k, z, msg, by, rs) ==
    [pc |-> p, op |-> o, idx |-> i, attempt |-> a, kidx |-> k, zone |-> z,
     m |-> msg, panicBy |-> by, rets |-> rs]

Goto(s) ==
    /\ pc' = s.pc
    /\ op' = s.op
    /\ idx' = s.idx
    /\ attempt' = s.attempt
    /\ kidx' = s.kidx
    /\ zone' = s.zone
    /\ m' = s.m
    /\ panicBy' = s.panicBy
    /\ rets' = s.rets

Ret(fn, o, i, e, z) == [fn |-> fn, op |-> o, idx |-> i, err |-> e, apex |-> z]

(* os.Exit(0) at the end of main. *)
Exit(rs) == St("exit", "none", 0, 0, 0, Root, NoMsg, "none", rs)

(* Mutant: the failure is logged and the loop goes on with the next domain. *)
PanicContinues(o, i, z, msg, by, rs) ==
    IF i < Len(pinNames) THEN St("GetZone", o, i + 1, 0, 0, Root, NoMsg, "none", rs)
    ELSE St("exit", "none", 0, 0, 0, Root, NoMsg, "none", rs)

(* Mutant: when zone resolution fails, the caller starts it over. *)
PanicRetriesResolution(o, i, z, msg, by, rs) ==
    IF o # "none" /\ by = o /\ msg = NoMsg
    THEN St("GetZone", o, i, 0, 0, Root, NoMsg, "none", rs)
    ELSE St("panic", o, i, 0, 0, z, msg, by, rs)

(* panic(...) called by function by while processing domain i of operation o. *)
Panic(o, i, z, msg, by, rs) == St("panic", o, i, 0, 0, z, msg, by, rs)

(* A name lies at or below an apex: the apex's labels end the name's. *)
Below(name, apex) ==
    /\ Len(apex) <= Len(name)
    /\ SubSeq(name, Len(name) - Len(apex) + 1, Len(name)) = apex

(* Mutant: the apexes GetZone returned earlier in the run are kept, and a  *)
(* domain that lies below one of them (it was resolved before, or shares   *)
(* the zone of a domain resolved before) gets its message built for that   *)
(* zone without a new lookup.                                              *)
CallGetZoneCached(o, i, rs) ==
    LET hits == { n \in DOMAIN rs :
                    /\ rs[n].fn = "GetZone" /\ rs[n].err = "none"
                    /\ Below(Fqdn(pinNames[i]), rs[n].apex) }
    IN  IF hits # {} /\ Len(keys) > 0 /\ HmacAlgo(keys[1].algorithm) # "unknown"
        THEN LET z == rs[CHOOSE n \in hits : TRUE].apex
             IN  St("TsigAndSend", o, i, 0, 1, z,
                    IF o = "DeleteRRs" THEN DeleteRRsMsg(pinNames[i], z)
                    ELSE AddRRMsg(pinNames[i], z, crtSigns),
                    "none", rs)
        ELSE St("GetZone", o, i, 0, 0, Root, NoMsg, "none", rs)

(* DeleteRRs and AddRR at the head of their loop body for domain i: the call *)
(* of GetZone, which stops at its first exchange.                            *)
CallGetZone(o, i, rs) == St("GetZone", o, i, 0, 0, Root, NoMsg, "none", rs)

(* Mutant: main publishes without looking at -dry-run. *)
MainPublishIgnoresDryRun(signs, rs) ==
    IF Len(signs) # 0 THEN CallGetZone("AddRR", 1, rs) ELSE Exit(rs)

(* main from "if len(crtSigns) != 0" on. *)
MainPublish(signs, rs) ==
    IF Len(signs) # 0 /\ ~dryRun THEN CallGetZone("AddRR", 1, rs) ELSE Exit(rs)

(* Mutant: main does not look at -clear-all. *)
MainClearSkipped(signs, rs) ==
    IF Len(signs) # 0 /\ ~dryRun THEN CallGetZone("AddRR", 1, rs) ELSE Exit(rs)

(* Mutant: -dry-run is looked at for Publish only; Clear resolves and sends. *)
MainClearIgnoresDryRun(signs, rs) ==
    IF clearAll THEN CallGetZone("DeleteRRs", 1, rs)
    ELSE MainPublish(signs, rs)

(* main from "if clearAll" on. *)
MainClear(signs, rs) ==
    IF clearAll /\ ~dryRun THEN CallGetZone("DeleteRRs", 1, rs)
    ELSE MainPublish(signs, rs)

(* The loop of DeleteRRs and AddRR after TsigAndSend returned nil for domain *)
(* i: the next domain, or the return to main.                                *)
NextDomain(o, i, rs) ==
    IF i < Len(pinNames) THEN CallGetZone(o, i + 1, rs)
    ELSE IF o = "DeleteRRs" THEN MainPublish(crtSigns, rs)
    ELSE Exit(rs)

(* Mutant: TsigAndSend returns nil after the exchange of the first key. *)
TsigLoopFirstKeyOnly(o, i, z, msg, k, rs) ==
    IF k > Len(keys) \/ k > 1
    THEN NextDomain(o, i, Append(rs, Ret("TsigAndSend", o, i, "none", z)))
    ELSE IF HmacAlgo(keys[k].algorithm) = "unknown"
    THEN Panic(o, i, z, msg, o,
               Append(rs, Ret("TsigAndSend", o, i, "UnsupportedAlgorithmError", z)))
    ELSE St("TsigAndSend", o, i, 0, k, z, msg, "none", rs)

(* Mutant: TsigAndSend refuses to send when there is no key to sign with. *)
TsigLoopRequiresKey(o, i, z, msg, k, rs) ==
    IF Len(keys) = 0
    THEN Panic(o, i, z, msg, o, Append(rs, Ret("TsigAndSend", o, i, "NoKeyError", z)))
    ELSE IF k > Len(keys)
    THEN NextDomain(o, i, Append(rs, Ret("TsigAndSend", o, i, "none", z)))
    ELSE IF HmacAlgo(keys[k].algorithm) = "unknown"
    THEN Panic(o, i, z, msg, o,
               Append(rs, Ret("TsigAndSend", o, i, "UnsupportedAlgorithmError", z)))
    ELSE St("TsigAndSend", o, i, 0, k, z, msg, "none", rs)

(* TsigAndSend at the head of its loop for key k of message msg: it returns *)
(* nil after the last key, returns an error for an unknown algorithm (and   *)
(* the caller panics), or stops at the exchange for key k.                  *)
TsigLoop(o, i, z, msg, k, rs) ==
    IF k > Len(keys)
    THEN NextDomain(o, i, Append(rs, Ret("TsigAndSend", o, i, "none", z)))
    ELSE IF HmacAlgo(keys[k].algorithm) = "unknown"
    THEN Panic(o, i, z, msg, o,
               Append(rs, Ret("TsigAndSend", o, i, "UnsupportedAlgorithmError", z)))
    ELSE St("TsigAndSend", o, i, 0, k, z, msg, "none", rs)

(* Mutant: the message is composed for the first domain of the list. *)
ComposeFirstDomain(o, i, z) ==
    IF o = "DeleteRRs" THEN DeleteRRsMsg(pinNames[1], z)
    ELSE AddRRMsg(pinNames[1], z, crtSigns)

(* DeleteRRs and AddRR after GetZone returned apex z for domain i: compose *)
(* the message and call TsigAndSend.                                        *)
Compose(o, i, z) ==
    IF o = "DeleteRRs" THEN DeleteRRsMsg(pinNames[i], z)
    ELSE AddRRMsg(pinNames[i], z, crtSigns)

AfterGetZone(o, i, z, rs) == TsigLoop(o, i, z, Compose(o, i, z), 1, rs)

-----------------------------------------------------------------------------
(* What the stub transport records of an exchange. *)

NoTsig == [name |-> "", algo |-> "", fudge |-> 0]

Reply(e, o, r) == [err |-> e, opcode |-> o, rcode |-> r]

QueryEntry(o, i, name, out) ==
    [kind |-> "query", op |-> o, idx |-> i, qname |-> Fqdn(name), msg |-> NoMsg,
     tsig |-> NoTsig, secrets |-> {},
     reply |-> IF out.err THEN Reply(TRUE, "NONE", "NONE")
               ELSE Reply(FALSE, "QUERY", "NOERROR")]

(* The message as TsigAndSend hands it to the client for key t: SetTsig with *)
(* the key's name and mapped algorithm, and a client holding that secret.    *)
UpdateEntry(o, i, msg, t, out) ==
    [kind |-> "update", op |-> o, idx |-> i, qname |-> msg.zone, msg |-> msg,
     tsig |-> [name |-> t.name, algo |-> HmacAlgo(t.algorithm), fudge |-> TSIGFUDGE],
     secrets |-> {<<t.name, t.secret>>},
     reply |-> Reply(out.err, out.opcode, out.rcode)]

-----------------------------------------------------------------------------
(* The lines main prints under -dry-run. *)
DryRunOutput(ks, signs) ==
    IF ~dryRun THEN <<>>
    ELSE [k \in 1..Len(ks) |-> <<"key", ks[k].secret>>]
         \o (IF clearAll THEN [n \in 1..Len(pinNames) |-> <<"clear", pinNames[n]>>]
             ELSE <<>>)
         \o [j \in 1..(Len(pinNames) * Len(signs)) |->
                <<"add", pinNames[((j - 1) \div Len(signs)) + 1],
                  signs[((j - 1) % Len(signs)) + 1]>>]

-----------------------------------------------------------------------------
Init ==
    /\ clearAll \in BOOLEAN
    /\ dryRun \in BOOLEAN
    /\ pinNames \in NameLists
    /\ pinCerts \in CertLists
    /\ tsigKeyFile \in TsigFiles
    /\ \E t \in TlsaParams :
          /\ Usage = t[1] /\ Selector = t[2] /\ MatchingType = t[3]
          /\ t # FlagDefaults => ~clearAll
          /\ pinNames = SharedZoneList =>
                /\ t = FlagDefaults
                /\ tsigKeyFile \in {KeyFileOf(l) : l \in {k \in KeyLists : Len(k) <= 1}}
    /\ keys = <<>>
    /\ rrsets = InitialRRsets
    /\ outages = 0
    /\ crtSigns = <<>>
    /\ stdout = <<>>
    /\ pc = "main"
    /\ op = "none"
    /\ idx = 0
    /\ attempt = 0
    /\ kidx = 0
    /\ zone = Root
    /\ m = NoMsg
    /\ panicBy = "none"
    /\ wire = <<>>
    /\ rets = <<>>
    /\ called = "none"
    /\ input = <<>>
    /\ output = <<>>

(* main, from flag.Parse to the first exchange or the end of the process. *)
(* It panics when ReadTSIG returns an error, when no name was given, and    *)
(* inside CertificateSignatures when a certificate file does not load.      *)
main ==
    /\ pc = "main"
    /\ UNCHANGED <<config, wire, rrsets, outages, lib>>
    /\ LET r == ReadTSIG(tsigKeyFile)
           cs == IF Len(pinCerts) # 0 THEN CertificateSignatures(pinCerts)
                 ELSE [panic |-> "none", sigs |-> <<>>]
       IN  /\ keys' = r.ret
           /\ IF r.err # "none" \/ Len(pinNames) = 0
              THEN /\ crtSigns' = <<>>
                   /\ stdout' = <<>>
                   /\ Goto(Panic("none", 0, Root, NoMsg, "main", <<>>))
              ELSE IF cs.panic # "none"
              THEN /\ crtSigns' = <<>>
                   /\ stdout' = <<>>
                   /\ Goto(Panic("none", 0, Root, NoMsg, "CertificateSignatures",
                                 <<>>))
              ELSE /\ crtSigns' = cs.sigs
                   /\ stdout' = DryRunOutput(r.ret, cs.sigs)
                   /\ Goto(MainClear(cs.sigs, <<>>))

(* One iteration of GetZone's loop: a SOA query for the domain and what the *)
(* code does with the transport's answer, up to the program's next exchange. *)
(* A lost exchange is reported with a line on standard output.               *)
GetZone ==
    /\ pc = "GetZone"
    /\ attempt < RetryCeiling
    /\ UNCHANGED <<config, keys, crtSigns, rrsets, lib>>
    /\ \E out \in SoaOutcomes(Fqdn(pinNames[idx])) :
         /\ wire' = Append(wire, QueryEntry(op, idx, pinNames[idx], out))
         /\ stdout' = IF out.err
                      THEN Append(stdout, <<"error processing records">>)
                      ELSE stdout
         /\ outages' = IF out.err /\ attempt = 0 THEN outages + 1 ELSE outages
         /\ IF out.err
            THEN IF attempt + 1 < RetryCeiling
                 THEN Goto(St("GetZone", op, idx, attempt + 1, 0, Root, NoMsg,
                              "none", rets))
                 ELSE Goto(Panic(op, idx, Root, NoMsg, op,
                                 Append(rets, Ret("GetZone", op, idx,
                                                  "ZoneResolutionError", Root))))
            ELSE LET soa == ScanResponse(out)
                 IN  IF soa.found
                     THEN Goto(AfterGetZone(op, idx, soa.name,
                                  Append(rets, Ret("GetZone", op, idx, "none",
                                                   soa.name))))
                     ELSE Goto(Panic(op, idx, Root, NoMsg, "GetZone", rets))

(* One iteration of TsigAndSend's loop: the exchange signed with key kidx *)
(* and the code that follows it, up to the program's next exchange.        *)
TsigAndSend ==
    /\ pc = "TsigAndSend"
    /\ UNCHANGED <<config, keys, crtSigns, stdout, outages, lib>>
    /\ \E out \in UpdateOutcomes :
         /\ wire' = Append(wire, UpdateEntry(op, idx, m, keys[kidx], out))
         /\ rrsets' = IF out.applied THEN ApplyUpdate(rrsets, m.ns) ELSE rrsets
         /\ IF out.err
            THEN Goto(Panic(op, idx, zone, m, op,
                            Append(rets, Ret("TsigAndSend", op, idx,
                                             "TransportError", zone))))
            ELSE IF Rejected(out)
            THEN Goto(Panic(op, idx, zone, m, op,
                            Append(rets, Ret("TsigAndSend", op, idx,
                                             "UpdateRejectedError", zone))))
            ELSE Goto(TsigLoop(op, idx, zone, m, kidx + 1, rets))

Next == main \/ GetZone \/ TsigAndSend

Spec == Init /\ [][Next]_vars

(* The program is sequential and runs on when an exchange has returned: a *)
(* step that can be taken is taken.                                        *)
FairSpec == Spec /\ WF_vars(Next)

-----------------------------------------------------------------------------
(* Reading the transport's record and the returns. *)

Ops == {"DeleteRRs", "AddRR"}

(* The exchanges of one kind issued while operation o processed domain i. *)
Exchanges(kind, o, i) ==
    SelectSeq(wire, LAMBDA e : e.kind = kind /\ e.op = o /\ e.idx = i)

Queries(o, i) == Exchanges("query", o, i)
Updates(o, i) == Exchanges("update", o, i)

AllLost(es) == \A n \in DOMAIN es : es[n].reply.err

Accepted(e) ==
    ~e.reply.err /\ e.reply.opcode = "UPDATE" /\ e.reply.rcode = "NOERROR"

Returned(fn, o, i, e) ==
    \E n \in DOMAIN rets :
        rets[n].fn = fn /\ rets[n].op = o /\ rets[n].idx = i /\ rets[n].err = e

(* The program is inside function fn called for domain i of operation o. *)
Inside(fn, o, i) == pc = fn /\ op = o /\ idx = i

(* The run's TLSA parameters as the 8-bit fields of a record, whether       *)
(* dns.CertificateToDANE accepts them, and the TLSA record data they give    *)
(* with an association-data string.                                          *)
Params8 == <<Usage % 256, Selector % 256, MatchingType % 256>>

ParamsAccepted == Params8[2] \in {0, 1} /\ Params8[3] \in {0, 1, 2}

Record8(data) == <<Params8[1], Params8[2], Params8[3], data>>

-----------------------------------------------------------------------------
(* C1: when the transport loses every SOA exchange of a call of GetZone,   *)
(* the call issues exactly 5 queries, all for the fully-qualified name, and *)
(* then returns the ZoneResolutionError to its caller: no call ever issues  *)
(* a 6th query, and a call whose queries were all lost never returns an     *)
(* apex and does not panic itself.                                          *)
C1_RetryCeilingThenError ==
    \A o \in Ops : \A i \in 1..Len(pinNames) :
        LET qs == Queries(o, i)
        IN  /\ Len(qs) <= 5
            /\ \A n \in DOMAIN qs : qs[n].qname = Fqdn(pinNames[i])
            /\ (qs # <<>> /\ AllLost(qs)) =>
                  /\ ~Returned("GetZone", o, i, "none")
                  /\ ~Inside("GetZone", o, i) =>
                        /\ Len(qs) = 5
                        /\ Returned("GetZone", o, i, "ZoneResolutionError")
                        /\ panicBy = o
                        /\ Updates(o, i) = <<>>

(* C1 witness: a call of GetZone has returned the error after five losses. *)
C1_Witness ==
    \E o \in Ops : \E i \in 1..Len(pinNames) :
        /\ Returned("GetZone", o, i, "ZoneResolutionError")
        /\ Len(Queries(o, i)) = 5
        /\ AllLost(Queries(o, i))

(* C2: zone resolution never ends in a panic: every call of GetZone that   *)
(* has ended, whatever the transport gave it, ended by returning an apex or *)
(* a ZoneResolutionError to its caller.                                     *)
C2_GetZoneNeverPanics ==
    /\ panicBy # "GetZone"
    /\ \A o \in Ops : \A i \in 1..Len(pinNames) :
          (Queries(o, i) # <<>> /\ ~Inside("GetZone", o, i)) =>
              \/ Returned("GetZone", o, i, "none")
              \/ Returned("GetZone", o, i, "ZoneResolutionError")

(* An update message of one kind in the transport's record. *)
IsUpdate(e, kind) == e.kind = "update" /\ e.msg.kind = kind

(* C3: with -clear-all, no insert message is transmitted before the         *)
(* delete-RRset message of every target domain has been transmitted (and    *)
(* accepted) under every key, and no delete-RRset message follows an insert. *)
C3_ClearAllBeforeAnyPublish ==
    LET inserts == {p \in DOMAIN wire : IsUpdate(wire[p], "insert")}
        first == CHOOSE p \in inserts : \A r \in inserts : p <= r
    IN  (clearAll /\ inserts # {}) =>
            /\ \A i \in 1..Len(pinNames) : \A k \in 1..Len(keys) :
                  \E q \in 1..(first - 1) :
                      /\ IsUpdate(wire[q], "delete")
                      /\ wire[q].idx = i
                      /\ wire[q].msg.ns[1].name = Fqdn(pinNames[i])
                      /\ wire[q].tsig.name = keys[k].name
                      /\ Accepted(wire[q])
            /\ \A q \in first..Len(wire) : ~IsUpdate(wire[q], "delete")

(* C3 witness: with -clear-all and two target domains an insert was sent. *)
C3_Witness ==
    /\ clearAll
    /\ Len(pinNames) = 2
    /\ \E p \in DOMAIN wire : IsUpdate(wire[p], "insert")

(* The position i of pinNames is the only one with its owner name. *)
OwnerOnce(i) ==
    \A j \in 1..Len(pinNames) : Fqdn(pinNames[j]) = Fqdn(pinNames[i]) => j = i

(* The update messages transmitted that carry a record at an owner name. *)
UpdatesAt(owner) ==
    SelectSeq(wire, LAMBDA e : /\ e.kind = "update"
                               /\ \E n \in DOMAIN e.msg.ns : e.msg.ns[n].name = owner)

(* C4: a run with -clear-all, one TSIG key and N >= 1 pinned certificates   *)
(* that ends without failure has transmitted, for a target domain, exactly  *)
(* one delete-RRset message and then one insert message with N TLSA records *)
(* (usage 3, selector 1, matching type 2, the N association data in order), *)
(* and the server holds exactly those records at the owner name, whatever   *)
(* it held before.                                                          *)
C4_ClearThenPublishLeavesNew ==
    (pc = "exit" /\ clearAll /\ ~dryRun /\ Len(keys) = 1 /\ Len(pinCerts) >= 1) =>
        \A i \in 1..Len(pinNames) :
            OwnerOnce(i) =>
                LET owner == Fqdn(pinNames[i])
                    us == UpdatesAt(owner)
                IN  /\ Len(us) = 2
                    /\ us[1].msg.kind = "delete"
                    /\ us[1].msg.ns = << [name |-> owner, rrtype |-> "TLSA",
                                          class |-> "ANY", rdata |-> <<>>] >>
                    /\ us[2].msg.kind = "insert"
                    /\ Len(us[2].msg.ns) = Len(pinCerts)
                    /\ Len(crtSigns) = Len(pinCerts)
                    /\ \A n \in 1..Len(pinCerts) :
                          us[2].msg.ns[n] = [name |-> owner, rrtype |-> "TLSA",
                                             class |-> "IN",
                                             rdata |-> Record8(crtSigns[n])]
                    /\ rrsets[owner] = { Record8(crtSigns[n]) :
                                         n \in 1..Len(pinCerts) }

(* C4 witness: such a run for a.example.com, where the server held an older *)
(* record, and b.example.com., with two certificates, has ended.             *)
C4_Witness ==
    /\ pc = "exit" /\ clearAll /\ ~dryRun /\ Len(keys) = 1 /\ Len(pinCerts) = 2
    /\ pinNames = <<NameA, NameBDot>>
    /\ Cardinality(rrsets[Fqdn(NameA)]) = 2
    /\ OldRdata \notin rrsets[Fqdn(NameA)]

KeySupported(k) == keys[k].algorithm \in {157, 161, 163, 165}

(* C5: the transmissions of one call of sign-and-send are one per key, in   *)
(* key-list order, each carrying the same update message and signed with    *)
(* that key's name and that key's secret alone, each sent only after the    *)
(* one before was accepted; the call returns success exactly after all N    *)
(* keys have been used and accepted.                                        *)
C5_OneTransmissionPerKey ==
    \A o \in Ops : \A i \in 1..Len(pinNames) :
        LET us == Updates(o, i)
        IN  /\ Len(us) <= Len(keys)
            /\ \A k \in DOMAIN us :
                  /\ us[k].tsig.name = keys[k].name
                  /\ us[k].secrets = {<<keys[k].name, keys[k].secret>>}
                  /\ us[k].msg = us[1].msg
                  /\ k < Len(us) => Accepted(us[k])
            /\ Returned("TsigAndSend", o, i, "none") =>
                  /\ Len(us) = Len(keys)
                  /\ \A k \in DOMAIN us : Accepted(us[k])
            /\ ( /\ \A k \in 1..Len(keys) : KeySupported(k)
                 /\ Returned("GetZone", o, i, "none")
                 /\ ~Inside("TsigAndSend", o, i)
                 /\ \A k \in DOMAIN us : Accepted(us[k]) ) =>
                  Returned("TsigAndSend", o, i, "none")

(* C5 witness: a call with two supported keys has returned success. *)
C5_Witness ==
    /\ Len(keys) = 2
    /\ \E o \in Ops : \E i \in 1..Len(pinNames) :
          /\ Returned("TsigAndSend", o, i, "none")
          /\ Len(Updates(o, i)) = 2

(* The MAC the specification names for each supported algorithm number. *)
SpecMac(a) ==
    CASE a = 157 -> "hmac-md5"
      [] a = 161 -> "hmac-sha1"
      [] a = 163 -> "hmac-sha256"
      [] a = 165 -> "hmac-sha512"

(* C6: every transmitted update is signed with a key whose algorithm is one *)
(* of 157, 161, 163, 165, with the MAC of that number, and no key at or     *)
(* after an unsupported key of the list is ever used; a call of             *)
(* sign-and-send that reaches an unsupported key returns                    *)
(* UnsupportedAlgorithmError.                                               *)
C6_UnsupportedAlgorithmFails ==
    /\ \A p \in DOMAIN wire :
          wire[p].kind = "update" =>
              \E k \in 1..Len(keys) :
                  /\ wire[p].tsig.name = keys[k].name
                  /\ \A j \in 1..k : KeySupported(j)
                  /\ wire[p].tsig.algo = SpecMac(keys[k].algorithm)
    /\ \A o \in Ops : \A i \in 1..Len(pinNames) : \A b \in 1..Len(keys) :
          ( /\ ~KeySupported(b)
            /\ \A j \in 1..(b - 1) : KeySupported(j)
            /\ Returned("GetZone", o, i, "none")
            /\ ~Inside("TsigAndSend", o, i)
            /\ LET us == Updates(o, i)
               IN  Len(us) = b - 1 /\ \A n \in DOMAIN us : Accepted(us[n]) ) =>
              /\ Returned("TsigAndSend", o, i, "UnsupportedAlgorithmError")
              /\ ~Returned("TsigAndSend", o, i, "none")
              /\ pc = "panic"

(* C6 witness: sign-and-send failed at an unsupported second key, after the *)
(* transmission with the first.                                             *)
C6_Witness ==
    /\ Len(keys) = 2 /\ KeySupported(1) /\ ~KeySupported(2)
    /\ \E o \in Ops : \E i \in 1..Len(pinNames) :
          /\ Returned("TsigAndSend", o, i, "UnsupportedAlgorithmError")
          /\ Len(Updates(o, i)) = 1

(* C7: sign-and-send returns success only if every transmission was         *)
(* answered with opcode update and rcode success; a lost exchange makes it  *)
(* return TransportError and any other response UpdateRejectedError, and    *)
(* nothing is transmitted after that exchange: no retry, no remaining key.  *)
C7_SuccessOnlyIfAllAccepted ==
    /\ \A o \in Ops : \A i \in 1..Len(pinNames) :
          Returned("TsigAndSend", o, i, "none") =>
              LET us == Updates(o, i)
              IN  \A n \in DOMAIN us : Accepted(us[n])
    /\ \A p \in DOMAIN wire :
          (wire[p].kind = "update" /\ ~Accepted(wire[p])) =>
              /\ p = Len(wire)
              /\ pc = "panic"
              /\ Returned("TsigAndSend", wire[p].op, wire[p].idx,
                          IF wire[p].reply.err THEN "TransportError"
                          ELSE "UpdateRejectedError")
              /\ ~Returned("TsigAndSend", wire[p].op, wire[p].idx, "none")

(* C7 witness: with two keys, the response to the first key's transmission *)
(* had a wrong opcode and sign-and-send returned UpdateRejectedError.       *)
C7_Witness ==
    /\ Len(keys) = 2
    /\ wire # <<>>
    /\ LET e == wire[Len(wire)]
       IN  /\ e.kind = "update"
           /\ e.tsig.name = keys[1].name
           /\ ~e.reply.err /\ e.reply.opcode = "QUERY" /\ e.reply.rcode = "NOERROR"
           /\ Returned("TsigAndSend", e.op, e.idx, "UpdateRejectedError")

(* C8: when zone resolution or sign-and-send returns an error for domain N *)
(* of Clear or Publish, that is the last return of the run and the run has  *)
(* aborted at domain N: no                                                  *)
(* step follows, the last exchange is one of domain N, no exchange was made *)
(* for a later domain or a later operation; for every domain before N the   *)
(* operation's message was transmitted and accepted under every key, no     *)
(* message of the other kind was sent for them in this operation, and the   *)
(* server still holds what those messages did.                              *)
C8_AbortWithoutRollback ==
    /\ \A n \in DOMAIN rets :
          rets[n].err # "none" =>
              /\ n = Len(rets)
              /\ pc = "panic" /\ op = rets[n].op /\ idx = rets[n].idx
    /\ (pc = "panic" /\ op \in Ops) =>
        /\ ~ENABLED Next
        /\ wire # <<>>
        /\ wire[Len(wire)].op = op /\ wire[Len(wire)].idx = idx
        /\ \A p \in DOMAIN wire :
              \/ wire[p].op = op /\ wire[p].idx <= idx
              \/ wire[p].op = "DeleteRRs" /\ op = "AddRR"
        /\ \A i \in 1..(idx - 1) :
              LET us == Updates(op, i)
              IN  /\ Len(us) = Len(keys)
                  /\ \A k \in DOMAIN us :
                        /\ Accepted(us[k])
                        /\ us[k].msg.kind = IF op = "AddRR" THEN "insert" ELSE "delete"
                  /\ Len(keys) > 0 =>
                        IF op = "AddRR"
                        THEN \A n \in 1..Len(crtSigns) :
                                Record8(crtSigns[n]) \in rrsets[Fqdn(pinNames[i])]
                        ELSE rrsets[Fqdn(pinNames[i])] = {}

(* C8 witness: Publish failed at the second of two domains after the first *)
(* domain's records were inserted.                                          *)
C8_Witness ==
    /\ pc = "panic" /\ op = "AddRR" /\ idx = 2 /\ Len(pinNames) = 2
    /\ Len(keys) > 0
    /\ Len(Updates("AddRR", 1)) = Len(keys)
    /\ rrsets[Fqdn(pinNames[1])] # {}

(* The zone the server's data puts an owner name in. *)
ApexOf(owner) ==
    IF owner \in {Fqdn(NameA), Fqdn(NameC)} THEN ZoneExample ELSE ZoneCom

(* C9: every update message transmitted is scoped to one zone, the apex a   *)
(* call of GetZone returned for the same domain in the same operation from  *)
(* the response that immediately precedes the domain's updates, and every   *)
(* record of the message is a TLSA record owned by the fully-qualified name *)
(* of that domain.                                                          *)
C9_MessageInResolvedZone ==
    \A p \in DOMAIN wire :
        wire[p].kind = "update" =>
            LET e == wire[p]
                owner == Fqdn(pinNames[e.idx])
            IN  /\ e.idx \in 1..Len(pinNames)
                /\ e.msg.ns # <<>>
                /\ \A n \in DOMAIN e.msg.ns :
                      e.msg.ns[n].name = owner /\ e.msg.ns[n].rrtype = "TLSA"
                /\ \E i \in DOMAIN rets :
                      rets[i] = Ret("GetZone", e.op, e.idx, "none", e.msg.zone)
                /\ e.msg.zone = ApexOf(owner)
                /\ \E q \in 1..(p - 1) :
                      /\ wire[q].kind = "query" /\ ~wire[q].reply.err
                      /\ wire[q].qname = owner
                      /\ wire[q].op = e.op /\ wire[q].idx = e.idx
                      /\ \A r \in (q + 1)..(p - 1) :
                            /\ wire[r].kind = "update"
                            /\ wire[r].op = e.op /\ wire[r].idx = e.idx

(* C9 witness: updates for two domains were sent, each in its own zone. *)
C9_Witness ==
    \E p, q \in DOMAIN wire :
        /\ wire[p].kind = "update" /\ wire[q].kind = "update"
        /\ wire[p].idx = 1 /\ wire[q].idx = 2
        /\ wire[p].msg.zone # wire[q].msg.zone

(* C10: with -dry-run no dynamic update message, delete-RRset or insert, is *)
(* ever transmitted, and the server's records stay as they were.            *)
C10_DryRunSendsNoUpdate ==
    dryRun =>
        /\ \A p \in DOMAIN wire : wire[p].kind # "update"
        /\ rrsets = InitialRRsets

(* C10 witness: a dry run with -clear-all, a certificate and a key printed *)
(* its lines and ended.                                                     *)
C10_Witness ==
    /\ dryRun /\ clearAll /\ pc = "exit"
    /\ Len(crtSigns) >= 1 /\ Len(keys) >= 1 /\ Len(pinNames) >= 1
    /\ Len(stdout) = Len(keys) + Len(pinNames) + Len(pinNames) * Len(crtSigns)

-----------------------------------------------------------------------------
(* The public-key bytes of a certificate file that loads, and its          *)
(* certificate bytes (none for a file that holds only a public key).        *)
PublicKeyOf(file) ==
    LET b == file.blocks[1]
    IN  IF b.Type = "PUBLIC KEY" THEN b.Bytes.der ELSE b.Bytes.spki

CertificateOf(file) ==
    LET b == file.blocks[1]
    IN  IF b.Type = "PUBLIC KEY" THEN <<>> ELSE b.Bytes.der

(* The association data the run's parameters give for a certificate file   *)
(* that loads.                                                              *)
DigestOf(file) ==
    << IF Params8[3] = 0 THEN "hex"
       ELSE IF Params8[3] = 1 THEN "sha256" ELSE "sha512",
       IF Params8[2] = 0 THEN CertificateOf(file) ELSE PublicKeyOf(file) >>

(* The lines of main's output that announce an insert. *)
AddLines == SelectSeq(stdout, LAMBDA l : l[1] = "add")

(* C11 as stated: a dry run that has printed its lines and ended has         *)
(* computed the digest of every pinned certificate and has issued a SOA      *)
(* query for every target domain.                                            *)
C11_DryRunResolvesEveryZone ==
    (dryRun /\ pc = "exit") =>
        /\ Len(crtSigns) = Len(pinCerts)
        /\ \A i \in 1..Len(pinNames) :
              \E q \in DOMAIN wire :
                  wire[q].kind = "query" /\ wire[q].qname = Fqdn(pinNames[i])

(* C11 as amended: with -dry-run the digest of every pinned certificate is  *)
(* computed (with the flags' defaults the SHA-512 of the public key; one    *)
(* per file, in order) before the                                           *)
(* would-be actions are printed, and is what the printed would-be inserts   *)
(* show for every target domain, but no zone is resolved: the run issues no *)
(* SOA query and no other exchange, and no call of GetZone is made.  A dry  *)
(* run that prints nothing ended by panic in main (key file refused, or no  *)
(* name) or in CertificateSignatures (a certificate file did not load, or    *)
(* the selector or matching type is one dns.CertificateToDANE refuses).      *)
C11_DryRunDigestsWithoutResolution ==
    dryRun =>
        /\ wire = <<>>
        /\ rets = <<>>
        /\ pc \in {"main", "exit", "panic"}
        /\ pc = "panic" =>
              /\ stdout = <<>>
              /\ \/ panicBy = "main"
                    /\ (Len(pinNames) = 0 \/ tsigKeyFile \in BadKeyFiles)
                 \/ panicBy = "CertificateSignatures"
                    /\ \/ \E c \in 1..Len(pinCerts) : pinCerts[c] \in BadCertFiles
                       \/ Len(pinCerts) >= 1 /\ ~ParamsAccepted
        /\ pc = "exit" =>
              /\ Len(crtSigns) = Len(pinCerts)
              /\ \A c \in 1..Len(pinCerts) :
                    crtSigns[c] = DigestOf(pinCerts[c])
              /\ Len(AddLines) = Len(pinNames) * Len(pinCerts)
              /\ \A i \in 1..Len(pinNames) : \A c \in 1..Len(pinCerts) :
                    AddLines[(i - 1) * Len(pinCerts) + c]
                        = <<"add", pinNames[i],
                            DigestOf(pinCerts[c])>>

(* C11 witness: a dry run for two domains and two certificates has ended    *)
(* with its four would-be inserts printed.                                   *)
C11_Witness ==
    /\ dryRun /\ pc = "exit"
    /\ Len(pinNames) = 2 /\ Len(pinCerts) = 2
    /\ Len(AddLines) = 4

-----------------------------------------------------------------------------
(* The update messages Publish (AddRR) has transmitted, in order. *)
Published == SelectSeq(wire, LAMBDA e : e.kind = "update" /\ e.op = "AddRR")

(* C12: every update message of Publish has only insert instructions, one   *)
(* TLSA record per association-data string, in order, each at the domain's  *)
(* fully-qualified name with the run's usage, selector and matching type    *)
(* (3, 1 and 2 unless flags say otherwise) as 8-bit fields, and             *)
(* the association data are the same in all messages; with one TSIG key the *)
(* j-th message is the one of the j-th domain, and a Publish that completes *)
(* for D domains has transmitted exactly D messages.                        *)
C12_PublishOneInsertPerDomain ==
    LET ins == Published
    IN  /\ \A j \in DOMAIN ins :
              LET ns == ins[j].msg.ns
              IN  /\ Len(crtSigns) >= 1
                  /\ Len(ns) = Len(crtSigns)
                  /\ \A n \in DOMAIN ns :
                        /\ ns[n].class = "IN"
                        /\ ns[n].rrtype = "TLSA"
                        /\ ns[n].name = Fqdn(pinNames[ins[j].idx])
                        /\ ns[n].rdata = Record8(crtSigns[n])
                        /\ ns[n].rdata = ins[1].msg.ns[n].rdata
        /\ Len(keys) = 1 =>
              /\ \A j \in DOMAIN ins : ins[j].idx = j
              /\ Len(ins) <= Len(pinNames)
              /\ (pc = "exit" /\ ~dryRun /\ Len(crtSigns) >= 1) =>
                    Len(ins) = Len(pinNames)

(* C12 witness: Publish alone, with one key, two domains and two            *)
(* certificates, has completed with two messages of two records.             *)
C12_Witness ==
    /\ pc = "exit" /\ ~clearAll /\ Len(keys) = 1
    /\ Len(pinNames) = 2 /\ Len(crtSigns) = 2
    /\ Len(Published) = 2
    /\ Len(Published[2].msg.ns) = 2

-----------------------------------------------------------------------------
(* Single calls of the package's functions on a file or a response.  The    *)
(* command is at the start of main, with no flag given; each step applies   *)
(* one function to one input and records what it returned.                  *)

CallReadTSIG ==
    /\ called = "none"
    /\ \E f \in KeyFiles :
          /\ called' = "ReadTSIG"
          /\ input' = f
          /\ output' = ReadTSIG(f)
    /\ UNCHANGED prog

CallGetCertificate ==
    /\ called = "none"
    /\ \E f \in PemFiles :
          /\ called' = "GetCertificate"
          /\ input' = f
          /\ output' = GetCertificate(f)
    /\ UNCHANGED prog

(* dns.CertificateToDANE on a loaded certificate or public key, for every  *)
(* selector in 0..2 and matching type in 0..3.                             *)
CallCertificateToDANE ==
    /\ called = "none"
    /\ \E selector \in 0..2, matchingType \in 0..3, i \in 1..MaxCerts :
          LET c == GetCertificate(CertFile(i)).cert
          IN  /\ called' = "CertificateToDANE"
              /\ input' = [selector |-> selector, matchingType |-> matchingType,
                           cert |-> c]
              /\ output' = CertificateToDANE(selector, matchingType, c)
    /\ UNCHANGED prog

(* The keys of the map GetDomainNamesFromCertFile fills: the subject common *)
(* name unless empty, and the DNS names.                                    *)
DomainSet(cert) ==
    (IF cert.commonName # "" THEN {cert.commonName} ELSE {})
    \cup { cert.dnsNames[i] : i \in DOMAIN cert.dnsNames }

(* The lists a range over a map with these keys can build: any order. *)
Orderings(S) ==
    { q \in [1..Cardinality(S) -> S] : { q[i] : i \in DOMAIN q } = S }

(* Mutant: the names are appended to a list as they are found. *)
GetDomainNamesAppending(file) ==
    LET g == GetCertificate(file)
    IN  IF g.err # "none" THEN { [err |-> g.err, ret |-> <<>>] }
        ELSE { [err |-> "none",
                ret |-> (IF g.cert.commonName # "" THEN <<g.cert.commonName>>
                         ELSE <<>>) \o g.cert.dnsNames] }

(* GetDomainNamesFromCertFile: what a call may return (the order of the     *)
(* list is the iteration order of a map, which the language leaves open).   *)
GetDomainNamesFromCertFile(file) ==
    LET g == GetCertificate(file)
    IN  IF g.err # "none" THEN { [err |-> g.err, ret |-> <<>>] }
        ELSE { [err |-> "none", ret |-> q] : q \in Orderings(DomainSet(g.cert)) }

CallGetDomainNamesFromCertFile ==
    /\ called = "none"
    /\ \E f \in PemFiles :
          /\ called' = "GetDomainNamesFromCertFile"
          /\ input' = f
          /\ output' \in GetDomainNamesFromCertFile(f)
    /\ UNCHANGED prog

(* The responses GetZone may receive for a SOA query. *)
RRPool == {SoaExample, SoaCom, SoaChaos, NsExample}

SoaResponses ==
    { Response(n, a) : n \in SeqsUpTo(RRPool, MaxRRs), a \in SeqsUpTo(RRPool, MaxRRs) }

(* GetZone's handling of one received response: the scan of its sections. *)
CallScanResponse ==
    /\ called = "none"
    /\ \E in \in SoaResponses :
          /\ called' = "GetZone"
          /\ input' = in
          /\ output' = ScanResponse(in)
    /\ UNCHANGED prog

LibInit ==
    /\ Init
    /\ ~clearAll /\ ~dryRun
    /\ pinNames = <<>> /\ pinCerts = <<>> /\ tsigKeyFile = KeyFileOf(<<>>)
    /\ <<Usage, Selector, MatchingType>> = FlagDefaults

LibNext ==
    \/ CallReadTSIG
    \/ CallGetCertificate
    \/ CallCertificateToDANE
    \/ CallGetDomainNamesFromCertFile
    \/ CallScanResponse

LibSpec == LibInit /\ [][LibNext]_vars

-----------------------------------------------------------------------------
(* A token ReadTSIG does not accept. *)
BadToken(t) == t.nil \/ t.class # "IN" \/ t.rrtype # "KEY"

(* C13: ReadTSIG on a file it can open returns an error whenever some       *)
(* record has a class other than Internet or a type other than KEY, and the *)
(* error is raised at the first entry it does not accept (the keys before   *)
(* it are all it has read); when every entry is an Internet-class KEY       *)
(* record it returns all of them, in file order, without error; a file      *)
(* without entries gives the empty list and no error.                       *)
C13_ReadTSIGStrict ==
    (called = "ReadTSIG" /\ input.open) =>
        LET ts == input.tokens
            r == output
        IN  /\ (\E n \in DOMAIN ts :
                   ~ts[n].nil /\ (ts[n].class # "IN" \/ ts[n].rrtype # "KEY"))
                 => r.err # "none"
            /\ (\A n \in DOMAIN ts : ~BadToken(ts[n])) =>
                  /\ r.err = "none"
                  /\ Len(r.ret) = Len(ts)
                  /\ \A n \in DOMAIN ts :
                        /\ r.ret[n].name = ts[n].name
                        /\ r.ret[n].algorithm = ts[n].algorithm
                        /\ r.ret[n].secret = ts[n].secret
            /\ r.err # "none" =>
                  \E b \in DOMAIN ts :
                      /\ BadToken(ts[b])
                      /\ \A n \in 1..(b - 1) : ~BadToken(ts[n])
                      /\ Len(r.ret) = b - 1
                      /\ r.err = IF ts[b].nil THEN "nil RR"
                                 ELSE IF ts[b].class # "IN" THEN "unexpected class"
                                 ELSE "unexpected type"
            /\ ts = <<>> => (r.ret = <<>> /\ r.err = "none")

(* C13 witness: a file with a key, a record of class CH and another key was *)
(* refused at its second record.                                            *)
C13_Witness ==
    /\ called = "ReadTSIG" /\ input.open
    /\ Len(input.tokens) = 3
    /\ ~BadToken(input.tokens[1]) /\ ~BadToken(input.tokens[3])
    /\ input.tokens[2].class = "CH"
    /\ output.err = "unexpected class"
    /\ Len(output.ret) = 1

-----------------------------------------------------------------------------
(* C14: GetCertificate fails on a file it cannot read and on a file without *)
(* a PEM block; otherwise the type of the first block decides: CERTIFICATE  *)
(* gives the parsed certificate (or fails when the bytes do not parse),      *)
(* PUBLIC KEY gives a value with the block's bytes as public key and no     *)
(* certificate bytes, no common name and no DNS names, and any other type   *)
(* fails with the unsupported-type error; a failure never comes with a      *)
(* certificate value.                                                        *)
C14_GetCertificateDispatch ==
    called = "GetCertificate" =>
        LET f == input
            r == output
        IN  /\ (r.err = "none") <=> ~r.cert.nil
            /\ ~f.readable => r.err = "read"
            /\ (f.readable /\ f.blocks = <<>>) => r.err = "no PEM block"
            /\ (f.readable /\ f.blocks # <<>>) =>
                  LET b == f.blocks[1]
                  IN  /\ (b.Type = "CERTIFICATE" /\ b.Bytes.asn1 = "Certificate") =>
                            /\ r.err = "none"
                            /\ r.cert.raw = b.Bytes.der
                            /\ r.cert.spki = b.Bytes.spki
                            /\ r.cert.commonName = b.Bytes.commonName
                            /\ r.cert.dnsNames = b.Bytes.dnsNames
                      /\ (b.Type = "CERTIFICATE" /\ b.Bytes.asn1 # "Certificate") =>
                            r.err = "parse"
                      /\ b.Type = "PUBLIC KEY" =>
                            /\ r.err = "none"
                            /\ r.cert.raw = <<>>
                            /\ r.cert.spki = b.Bytes.der
                            /\ r.cert.commonName = ""
                            /\ r.cert.dnsNames = <<>>
                      /\ b.Type \notin {"CERTIFICATE", "PUBLIC KEY"} =>
                            r.err = "unsupported type"

(* C14 witness: a file whose first block is an RSA PRIVATE KEY, followed by *)
(* a certificate, was refused.                                              *)
C14_Witness ==
    /\ called = "GetCertificate"
    /\ Len(input.blocks) = 2
    /\ input.blocks[1].Type = "RSA PRIVATE KEY"
    /\ input.blocks[2].Type = "CERTIFICATE"
    /\ input.blocks[2].Bytes.asn1 = "Certificate"
    /\ output.err = "unsupported type"
    /\ output.cert.nil

(* C15: when the file loads, GetDomainNamesFromCertFile returns a list      *)
(* without duplicates whose elements are exactly the certificate's common   *)
(* name, if not empty, and its DNS subject-alternative names: one name when *)
(* the common name is the only SAN, and none for a PUBLIC KEY block; when   *)
(* the file does not load it returns the error and no names.                *)
C15_DomainNamesAreASet ==
    called = "GetDomainNamesFromCertFile" =>
        LET f == input
            ret == output.ret
            loads == /\ f.readable /\ f.blocks # <<>>
                     /\ \/ f.blocks[1].Type = "PUBLIC KEY"
                        \/ /\ f.blocks[1].Type = "CERTIFICATE"
                           /\ f.blocks[1].Bytes.asn1 = "Certificate"
        IN  /\ (output.err = "none") <=> loads
            /\ ~loads => ret = <<>>
            /\ loads =>
                  LET b == f.blocks[1]
                      cn == b.Bytes.commonName
                      sans == b.Bytes.dnsNames
                  IN  /\ \A i, j \in DOMAIN ret : ret[i] = ret[j] => i = j
                      /\ b.Type = "PUBLIC KEY" => ret = <<>>
                      /\ b.Type = "CERTIFICATE" =>
                            /\ \A i \in DOMAIN ret :
                                  \/ ret[i] = cn /\ cn # ""
                                  \/ \E k \in DOMAIN sans : ret[i] = sans[k]
                            /\ cn # "" => \E i \in DOMAIN ret : ret[i] = cn
                            /\ \A k \in DOMAIN sans :
                                  \E i \in DOMAIN ret : ret[i] = sans[k]
                            /\ (cn # "" /\ \A k \in DOMAIN sans : sans[k] = cn) =>
                                  Len(ret) = 1

(* C15 witness: a certificate whose common name is also its only DNS name   *)
(* gave that one name.                                                      *)
C15_Witness ==
    /\ called = "GetDomainNamesFromCertFile"
    /\ input.blocks # <<>>
    /\ input.blocks[1].Type = "CERTIFICATE"
    /\ input.blocks[1].Bytes.commonName = "a.example.com"
    /\ input.blocks[1].Bytes.dnsNames = <<"a.example.com">>
    /\ output = [err |-> "none", ret |-> <<"a.example.com">>]

(* The positions of a section that hold an Internet-class SOA record. *)
SoaAt(rrs) == { n \in DOMAIN rrs : rrs[n].class = "IN" /\ rrs[n].rrtype = "SOA" }

First(S) == CHOOSE n \in S : \A k \in S : n <= k

(* C16: on a response, GetZone's scan gives the owner name of the first     *)
(* Internet-class SOA record of the authority section if there is one,      *)
(* whatever the answer section holds; otherwise that of the first such      *)
(* record of the answer section; records of another class or type are       *)
(* skipped, and nothing is found when neither section holds such a record.  *)
C16_AuthorityThenAnswer ==
    called = "GetZone" =>
        LET in == input
        IN  IF SoaAt(in.Ns) # {}
            THEN output.found /\ output.name = in.Ns[First(SoaAt(in.Ns))].name
            ELSE IF SoaAt(in.Answer) # {}
            THEN output.found /\ output.name = in.Answer[First(SoaAt(in.Answer))].name
            ELSE ~output.found

(* C16 witness: the authority section held an NS record and then the SOA of *)
(* example.com., the answer section the SOA of com.: example.com. was found. *)
C16_Witness ==
    /\ called = "GetZone"
    /\ input.Ns = <<NsExample, SoaExample>>
    /\ input.Answer = <<SoaCom>>
    /\ output.found /\ output.name = ZoneExample

-----------------------------------------------------------------------------
(* The SOA queries issued during operation o, in order. *)
OpQueries(o) == SelectSeq(wire, LAMBDA e : e.kind = "query" /\ e.op = o)

(* Operation o has gone through every target domain. *)
Completed(o) ==
    \A i \in 1..Len(pinNames) : Returned("TsigAndSend", o, i, "none")

(* C17: in Clear and in Publish every target domain has its own SOA lookup: *)
(* before the first update message of a domain in an operation, and before  *)
(* sign-and-send returns for it, a query for that domain was answered in    *)
(* the same operation, and the exchange just before the domain's first      *)
(* update is that query; an operation that has completed for D domains      *)
(* without a lost query has issued exactly D queries, the i-th for the i-th *)
(* domain, whether or not an earlier operation of the run resolved the same *)
(* name or another domain lies in the same zone.                            *)
C17_NoZoneCaching ==
    \A o \in Ops :
        /\ \A i \in 1..Len(pinNames) :
              LET qs == Queries(o, i)
              IN  /\ ( \/ Updates(o, i) # <<>>
                       \/ \E n \in DOMAIN rets :
                             /\ rets[n].fn = "TsigAndSend"
                             /\ rets[n].op = o /\ rets[n].idx = i ) =>
                        /\ qs # <<>>
                        /\ ~qs[Len(qs)].reply.err
                        /\ qs[Len(qs)].qname = Fqdn(pinNames[i])
                        /\ \A n \in 1..(Len(qs) - 1) : qs[n].reply.err
                  /\ \A p \in DOMAIN wire :
                        ( /\ wire[p].kind = "update"
                          /\ wire[p].op = o /\ wire[p].idx = i
                          /\ \A r \in 1..(p - 1) :
                                ~(wire[r].kind = "update" /\ wire[r].op = o
                                  /\ wire[r].idx = i) ) =>
                            /\ p > 1
                            /\ wire[p - 1].kind = "query"
                            /\ wire[p - 1].op = o /\ wire[p - 1].idx = i
                            /\ ~wire[p - 1].reply.err
        /\ LET oq == OpQueries(o)
           IN  ( /\ Completed(o) /\ Len(pinNames) > 0
                 /\ \A n \in DOMAIN oq : ~oq[n].reply.err ) =>
                   /\ Len(oq) = Len(pinNames)
                   /\ \A i \in DOMAIN oq :
                         oq[i].idx = i /\ oq[i].qname = Fqdn(pinNames[i])

(* C17 witness: Clear and then Publish have completed for a.example.com    *)
(* and c.example.com, which share the zone example.com., no query was lost, *)
(* and each operation issued its own two queries, one per domain, all four  *)
(* answered with the same apex; Publish for names Clear had resolved.       *)
C17_Witness ==
    /\ pc = "exit" /\ clearAll /\ pinNames = <<NameA, NameC>> /\ Len(keys) >= 1
    /\ \A o \in Ops : \A i \in 1..2 : Returned("GetZone", o, i, "none")
    /\ Len(SelectSeq(rets, LAMBDA r : r.fn = "GetZone" /\ r.apex = ZoneExample)) = 4
    /\ Completed("DeleteRRs") /\ Completed("AddRR")
    /\ Len(OpQueries("DeleteRRs")) = 2 /\ Len(OpQueries("AddRR")) = 2
    /\ \A p \in DOMAIN wire : wire[p].kind = "query" => ~wire[p].reply.err

-----------------------------------------------------------------------------
(* C18: crtSigns, to which CertificateSignatures appends once per           *)
(* certificate it loads and digests, is empty until main has run; once main *)
(* has gone past CertificateSignatures it holds exactly one digest per      *)
(* certificate file, in order (not one per domain), and never more than one *)
(* per file; it is complete before the first exchange of the run (a run in  *)
(* which a file does not load ends there, without any exchange), and every  *)
(* insert message, for whatever domain, carries exactly these digests.      *)
C18_DigestOncePerCertificate ==
    /\ pc = "main" => (crtSigns = <<>> /\ wire = <<>>)
    /\ Len(crtSigns) <= Len(pinCerts)
    /\ (pc = "panic" /\ panicBy \in {"main", "CertificateSignatures"}) =>
          (wire = <<>> /\ crtSigns = <<>>)
    /\ (pc # "main" /\ ~(pc = "panic" /\ panicBy \in {"main", "CertificateSignatures"})) =>
          /\ Len(crtSigns) = Len(pinCerts)
          /\ \A c \in 1..Len(pinCerts) :
                crtSigns[c] = DigestOf(pinCerts[c])
    /\ \A p \in DOMAIN wire :
          IsUpdate(wire[p], "insert") =>
              /\ Len(wire[p].msg.ns) = Len(pinCerts)
              /\ \A n \in DOMAIN wire[p].msg.ns :
                    wire[p].msg.ns[n].rdata[4]
                        = DigestOf(pinCerts[n])

(* C18 witness: with two certificate files and two domains, both domains'  *)
(* insert messages were sent and two digests were computed.                 *)
C18_Witness ==
    /\ Len(pinCerts) = 2 /\ Len(pinNames) = 2
    /\ Len(crtSigns) = 2
    /\ \E p, q \in DOMAIN wire :
          /\ IsUpdate(wire[p], "insert") /\ wire[p].idx = 1
          /\ IsUpdate(wire[q], "insert") /\ wire[q].idx = 2
          /\ wire[p].msg.ns[2].rdata = wire[q].msg.ns[2].rdata

-----------------------------------------------------------------------------
(* C19: a key file without records is read without error and gives the     *)
(* empty key list; then no update message is ever transmitted and the       *)
(* server's records stay as they were; every call of sign-and-send returns  *)
(* success, right after the domain's zone was resolved, so Clear and        *)
(* Publish can only abort in zone resolution, and a run that ends has       *)
(* completed Clear (with -clear-all) and Publish (with a certificate) for   *)
(* every domain with the domain's SOA query issued.  With any key list,     *)
(* every update message transmitted carries the TSIG of a key of the list   *)
(* and is sent by a client holding that key's secret.                       *)
C19_NoKeysNoUpdates ==
    /\ tsigKeyFile = KeyFileOf(<<>>) =>
          /\ keys = <<>>
          /\ (pc = "panic" /\ panicBy = "main") => Len(pinNames) = 0
          /\ \A p \in DOMAIN wire : wire[p].kind = "query"
          /\ rrsets = InitialRRsets
          /\ \A n \in DOMAIN rets :
                /\ rets[n].fn = "TsigAndSend" => rets[n].err = "none"
                /\ (rets[n].fn = "GetZone" /\ rets[n].err = "none") =>
                      /\ n < Len(rets)
                      /\ rets[n + 1] = Ret("TsigAndSend", rets[n].op, rets[n].idx,
                                            "none", rets[n].apex)
          /\ (pc = "panic" /\ op \in Ops) =>
                \/ panicBy = "GetZone"
                \/ rets[Len(rets)].err = "ZoneResolutionError"
          /\ (pc = "exit" /\ ~dryRun) =>
                \A o \in Ops : \A i \in 1..Len(pinNames) :
                    (IF o = "DeleteRRs" THEN clearAll ELSE Len(pinCerts) > 0) =>
                        /\ Returned("TsigAndSend", o, i, "none")
                        /\ Queries(o, i) # <<>>
    /\ \A p \in DOMAIN wire :
          wire[p].kind = "update" =>
              \E k \in 1..Len(keys) :
                  /\ wire[p].tsig.name = keys[k].name
                  /\ wire[p].tsig.algo \in {"hmac-md5", "hmac-sha1", "hmac-sha256",
                                           "hmac-sha512"}
                  /\ wire[p].tsig.fudge = 300
                  /\ wire[p].secrets = {<<keys[k].name, keys[k].secret>>}

(* C19 witness: without keys, Clear and Publish have completed for two      *)
(* domains: four SOA queries and no update.                                  *)
C19_Witness ==
    /\ tsigKeyFile = KeyFileOf(<<>>) /\ keys = <<>>
    /\ pc = "exit" /\ ~dryRun /\ clearAll
    /\ Len(pinCerts) >= 1 /\ Len(pinNames) = 2
    /\ Len(OpQueries("DeleteRRs")) >= 2 /\ Len(OpQueries("AddRR")) >= 2
    /\ Completed("DeleteRRs") /\ Completed("AddRR")
    /\ \A p \in DOMAIN wire : wire[p].kind = "query"

-----------------------------------------------------------------------------
(* All exchanges of operation o, in order. *)
OpExchanges(o) == SelectSeq(wire, LAMBDA e : e.op = o)

(* Two consecutive exchanges carry the same request. *)
SameRequest(d, e) ==
    /\ d.kind = e.kind /\ d.op = e.op /\ d.idx = e.idx
    /\ d.qname = e.qname /\ d.msg = e.msg /\ d.tsig = e.tsig

(* The run has ended: os.Exit(0), or a panic. *)
Ended == pc \in {"exit", "panic"}

ExchangeBounds ==
    /\ \A o \in Ops :
          /\ \A i \in 1..Len(pinNames) :
                /\ Len(Queries(o, i)) <= 5
                /\ Len(Updates(o, i)) <= Len(keys)
          /\ Len(OpExchanges(o)) <= Len(pinNames) * (5 + Len(keys))
    /\ \A p \in DOMAIN wire : wire[p].op \in Ops /\ wire[p].idx \in 1..Len(pinNames)
    /\ \A p \in 2..Len(wire) :
          SameRequest(wire[p - 1], wire[p]) =>
              (wire[p].kind = "query" /\ wire[p - 1].reply.err)

(* C20: when every exchange returns, every run ends, in os.Exit(0) or in a  *)
(* panic, and stays ended; all along, Clear and Publish have each issued at *)
(* most 5 SOA queries and at most K update transmissions per domain, hence  *)
(* at most D*(5+K) exchanges, and a request is only ever repeated by        *)
(* GetZone after a lost SOA query.                                          *)
C20_BoundedExchangesThenEnd ==
    /\ []ExchangeBounds
    /\ <>[]Ended

(* C20 witness: a run with two keys and two domains has ended in which a    *)
(* domain needed five SOA queries and both of its update transmissions.     *)
C20_Witness ==
    /\ pc = "exit" /\ Len(keys) = 2 /\ Len(pinNames) = 2
    /\ \E o \in Ops : \E i \in 1..Len(pinNames) :
          Len(Queries(o, i)) = 5 /\ Len(Updates(o, i)) = 2

====
